---------------------------- MODULE Spec2Model ----------------------------
(***************************************************************************)
(* Model of the FPL prediction pipeline:                                   *)
(*   data_processing.create_sequences   (the sliding-window builder)       *)
(*   model.predict_next_gameweek        (the latest-window extractor)      *)
(*   data_processing.process_data, main.main, data_ingestion.ingest_data   *)
(*                                                                         *)
(* A DataFrame is a record [isNone, columns, rows]; a row is a function    *)
(* from the frame's column names to integers, so a column that is absent   *)
(* is absent from the row as well.  Python's None frame is NoneFrame.      *)
(***************************************************************************)
EXTENDS Integers, Sequences, FiniteSets, TLC

VARIABLES
    df,             \* the row store handed to the builder / extractor
    seq_length,     \* window length argument
    feature_cols,   \* feature column list argument
    out,            \* what the latest create_sequences call produced
    prev_out,       \* what the call before it produced
    pred,           \* what predict_next_gameweek produced
    pc,             \* position of the running script ("idle": no script runs)
    pos,            \* index of the loop the script is in
    disk,           \* the local data directory
    remote,         \* what the data mirror holds
    fetched,        \* the network fetches attempted so far, in order
    data,           \* the key tables process_data returned (TRUE: not None)
    invoked,        \* the functions main has called, in order
    log,            \* what main logged at error level
    exc,            \* the exception that ended the script ("" when none)
    error_df        \* the error table analyze_errors built

builder_vars == <<df, seq_length, feature_cols, out, prev_out, pred>>
script_vars == <<pc, pos, disk, remote, fetched, data, invoked, log, exc, error_df>>
vars == <<df, seq_length, feature_cols, out, prev_out, pred,
          pc, pos, disk, remote, fetched, data, invoked, log, exc, error_df>>

---------------------------------------------------------------------------
\* Bounds of the model and the input sets.

MaxRows == 4
MaxL == 2

Players == {1, 2}
Gameweeks == {1, 2, 4}

BuilderCols == {"player_id", "gameweek", "minutes", "goals", "assists", "points"}

Max(a, b) == IF a >= b THEN a ELSE b

Range(s) == {s[i] : i \in DOMAIN s}

\* The value a cell holds: every row of a player differs from the others in
\* every column, and no column is monotone in the gameweek.
CellValue(c, p, g) ==
    CASE c = "player_id" -> p
      [] c = "gameweek"  -> g
      [] c \in {"minutes", "mins"}        -> 15 * ((2 * g + p) % 7)
      [] c \in {"goals", "goals_scored"}  -> (g + 2 * p) % 5
      [] c = "assists"                    -> 5 + ((3 * g + p) % 4)
      [] c \in {"points", "total_points"} -> 100 * p + g
      [] c = "value"                      -> 40 + 5 * p + (g % 3)
      [] OTHER                            -> 0

RowOf(cols, p, g) == [c \in cols |-> CellValue(c, p, g)]

NoneFrame == [isNone |-> TRUE, columns |-> {}, rows |-> <<>>]

Frame(cols, rows) == [isNone |-> FALSE, columns |-> cols, rows |-> rows]

---------------------------------------------------------------------------
\* pandas / numpy primitives used by the builder and the extractor.

\* (player_id, gameweek) of a precedes-or-equals that of b.
KeyLeq(a, b) ==
    \/ a["player_id"] < b["player_id"]
    \/ /\ a["player_id"] = b["player_id"]
       /\ a["gameweek"] <= b["gameweek"]

RECURSIVE InsertSorted(_, _)
InsertSorted(r, s) ==
    IF s = <<>> THEN <<r>>
    ELSE IF KeyLeq(s[Len(s)], r) THEN Append(s, r)
    ELSE Append(InsertSorted(r, SubSeq(s, 1, Len(s) - 1)), s[Len(s)])

RECURSIVE SortRows(_)
SortRows(rows) ==
    IF rows = <<>> THEN <<>>
    ELSE InsertSorted(rows[Len(rows)], SortRows(SubSeq(rows, 1, Len(rows) - 1)))

\* A sort that forgets the gameweek key: rows of a player stay in input order.
RECURSIVE InsertByPlayer(_, _)
InsertByPlayer(r, s) ==
    IF s = <<>> THEN <<r>>
    ELSE IF s[Len(s)]["player_id"] <= r["player_id"] THEN Append(s, r)
    ELSE Append(InsertByPlayer(r, SubSeq(s, 1, Len(s) - 1)), s[Len(s)])

RECURSIVE SortByPlayerOnly(_)
SortByPlayerOnly(rows) ==
    IF rows = <<>> THEN <<>>
    ELSE InsertByPlayer(rows[Len(rows)],
                        SortByPlayerOnly(SubSeq(rows, 1, Len(rows) - 1)))

\* df.sort_values(['player_id', 'gameweek']): a new, stably sorted table.
sort_values(rows) == SortRows(rows)

\* df['player_id'].unique(): the ids in order of first appearance.
RECURSIVE unique(_)
unique(rows) ==
    IF rows = <<>> THEN <<>>
    ELSE LET before == unique(SubSeq(rows, 1, Len(rows) - 1))
             p == rows[Len(rows)]["player_id"]
         IN IF p \in Range(before) THEN before ELSE Append(before, p)

\* df[df['player_id'] == player].reset_index(drop=True)
player_rows(rows, player) == SelectSeq(rows, LAMBDA r : r["player_id"] = player)

\* player_data[feature_cols].values : one feature tuple per row.
feature_values(rows, fc) ==
    [i \in 1..Len(rows) |-> [j \in 1..Len(fc) |-> rows[i][fc[j]]]]

\* player_data[target_col].values
target_values(rows, tc) == [i \in 1..Len(rows) |-> rows[i][tc]]

\* Python's range(n) as a sequence: 0, 1, ..., n-1 (empty when n <= 0).
range(n) == [i \in 1..Max(n, 0) |-> i - 1]

RECURSIVE SumSeq(_)
SumSeq(s) == IF s = <<>> THEN 0 ELSE s[Len(s)] + SumSeq(SubSeq(s, 1, Len(s) - 1))

---------------------------------------------------------------------------
\* data_processing.create_sequences

NotCalled == [kind |-> "not_called", X |-> <<>>, y |-> <<>>, who |-> <<>>]

\* return None, None
NoneResult == [kind |-> "None", X |-> <<>>, y |-> <<>>, who |-> <<>>]

\* a KeyError leaves the call: nothing is returned.
KeyErrorResult == [kind |-> "KeyError", X |-> <<>>, y |-> <<>>, who |-> <<>>]

\* np.array(sequences), np.array(targets); who[k] is the player whose rows
\* window k was cut from (bookkeeping the arrays themselves do not carry).
Arrays(X, y, who) == [kind |-> "arrays", X |-> X, y |-> y, who |-> who]

\* One window too few per player.
window_range_short(n, L) == range(n - L - 1)

\* for i in range(len(player_data) - seq_length)
window_range(n, L) == range(n - L)

RECURSIVE build_loop(_, _, _, _, _, _, _, _)
build_loop(s, cols, players, k, L, fc, tc, acc) ==
    IF k > Len(players) THEN acc
    ELSE LET player_data == player_rows(s, players[k])
             n == Len(player_data)
         IN IF n <= L THEN build_loop(s, cols, players, k + 1, L, fc, tc, acc)
            ELSE IF \E j \in 1..Len(fc) : fc[j] \notin cols THEN KeyErrorResult
            ELSE IF tc \notin cols THEN KeyErrorResult
            ELSE LET data_array == feature_values(player_data, fc)
                     target_array == target_values(player_data, tc)
                     idx == window_range(n, L)
                     m == Len(idx)
                 IN build_loop(s, cols, players, k + 1, L, fc, tc,
                      Arrays(acc.X \o [q \in 1..m |->
                                         SubSeq(data_array, idx[q] + 1, idx[q] + L)],
                             acc.y \o [q \in 1..m |-> target_array[idx[q] + L + 1]],
                             acc.who \o [q \in 1..m |-> players[k]]))

create_sequences(d, L, fc, tc) ==
    IF d.isNone THEN NoneResult
    ELSE IF "gameweek" \notin d.columns THEN NoneResult
    ELSE IF "player_id" \notin d.columns THEN KeyErrorResult
    ELSE LET s == sort_values(d.rows)
         IN build_loop(s, d.columns, unique(s), 1, L, fc, tc,
                       Arrays(<<>>, <<>>, <<>>))

\* sort_values sorting the caller's table in place.
sorted_in_place(rows) == sort_values(rows)

\* df = df.sort_values(...) binds a new table to the local name: the rows of
\* the table the caller passed are what they were.
caller_rows_after_sort(rows) == rows

\* The caller's table once a call that got as far as sort_values is over.
caller_frame_after(d) ==
    IF d.isNone \/ ~({"player_id", "gameweek"} \subseteq d.columns) THEN d
    ELSE [d EXCEPT !.rows = caller_rows_after_sort(@)]

---------------------------------------------------------------------------
\* model.predict_next_gameweek

\* Stand-in for the trained network: some fixed function of the window.
model_predict(seq) == SumSeq([i \in 1..Len(seq) |-> SumSeq(seq[i])])

NoPrediction == [kind |-> "not_called", predictions |-> <<>>, calls |-> <<>>]

PredictRaised(e) == [kind |-> e, predictions |-> <<>>, calls |-> <<>>]

\* The first seq_length rows in place of the last.
first_rows(player_data, L) == SubSeq(player_data, 1, L)

\* player_data.iloc[-seq_length:]
last_rows(player_data, L) ==
    SubSeq(player_data, Len(player_data) - L + 1, Len(player_data))

\* A strict comparison in place of >=.
strictly_longer(n, L) == n > L

\* if len(player_data) >= seq_length
has_latest_window(n, L) == n >= L

\* Every row's player id, repeats included.
all_player_ids(rows) == [i \in 1..Len(rows) |-> rows[i]["player_id"]]

\* for player in sorted_df['player_id'].unique()
players_to_predict(rows) == unique(rows)

RECURSIVE predict_loop(_, _, _, _, _, _, _)
predict_loop(s, cols, players, k, L, fc, acc) ==
    IF k > Len(players) THEN acc
    ELSE LET player_data == player_rows(s, players[k])
         IN IF ~has_latest_window(Len(player_data), L)
            THEN predict_loop(s, cols, players, k + 1, L, fc, acc)
            ELSE IF \E j \in 1..Len(fc) : fc[j] \notin cols
            THEN PredictRaised("KeyError")
            ELSE LET seq == feature_values(last_rows(player_data, L), fc)
                 IN predict_loop(s, cols, players, k + 1, L, fc,
                      [kind |-> "dict",
                       predictions |-> (players[k] :> model_predict(seq))
                                       @@ acc.predictions,
                       calls |-> Append(acc.calls,
                                        [player |-> players[k], seq |-> seq])])

predict_next_gameweek(d, L, fc) ==
    IF d.isNone THEN PredictRaised("AttributeError")
    ELSE IF ~({"player_id", "gameweek"} \subseteq d.columns)
    THEN PredictRaised("KeyError")
    ELSE LET s == sort_values(d.rows)
         IN predict_loop(s, d.columns, players_to_predict(s), 1, L, fc,
                         [kind |-> "dict", predictions |-> <<>>, calls |-> <<>>])

---------------------------------------------------------------------------
\* The builder and the extractor called on a row store.

\* Row orders: every way to list at most MaxRows distinct (player, gameweek).
KeyLists ==
    {s \in UNION {[1..n -> Players \X Gameweeks] : n \in 0..MaxRows} :
        \A i, j \in DOMAIN s : i # j => s[i] # s[j]}

ColumnChoices ==
    {BuilderCols} \cup {BuilderCols \ {c} : c \in {"player_id", "gameweek", "minutes", "points"}}

FeatureColChoices == {<<"minutes">>, <<"minutes", "goals", "assists">>}

\* The worked example: one player, gameweeks 1..6.
ExamplePlayers == {7}
ExampleMinutes == <<90, 45, 0, 90, 90, 60>>
ExamplePoints == <<6, 2, 0, 9, 5, 7>>
ExampleCols == {"player_id", "gameweek", "minutes", "points"}
ExampleRow(g) ==
    [c \in ExampleCols |->
        CASE c = "player_id" -> CHOOSE p \in ExamplePlayers : TRUE
          [] c = "gameweek"  -> g
          [] c = "minutes"   -> ExampleMinutes[g]
          [] c = "points"    -> ExamplePoints[g]]
ExampleOrders ==
    {s \in [1..Len(ExampleMinutes) -> 1..Len(ExampleMinutes)] :
        \A i, j \in DOMAIN s : i # j => s[i] # s[j]}
ExampleLengths == {3, 5, 6}

InitGeneral ==
    /\ \/ \E ks \in KeyLists, cols \in ColumnChoices :
             df = Frame(cols, [i \in 1..Len(ks) |-> RowOf(cols, ks[i][1], ks[i][2])])
       \/ df = NoneFrame
    /\ seq_length \in 1..MaxL
    /\ feature_cols \in FeatureColChoices

InitExample ==
    /\ \E o \in ExampleOrders :
          df = Frame(ExampleCols, [i \in 1..Len(o) |-> ExampleRow(o[i])])
    /\ seq_length \in ExampleLengths
    /\ feature_cols = <<"minutes">>

EmptyDisk == [files |-> {}, idlist |-> <<>>, understat |-> {}, players |-> <<>>]

NoRemote == [idlist |-> <<>>, understat |-> <<>>, gw_rows |-> <<>>, gw_cols |-> {}]

NoData == [teams_df |-> FALSE, fixtures_df |-> FALSE,
           player_idlist_df |-> FALSE, playerraw_df |-> FALSE]

\* No script is running: the builder and the extractor are called directly.
ScriptIdle ==
    /\ pc = "idle"
    /\ pos = 0
    /\ disk = EmptyDisk
    /\ remote = NoRemote
    /\ fetched = <<>>
    /\ data = NoData
    /\ invoked = <<>>
    /\ log = <<>>
    /\ exc = ""
    /\ error_df = <<>>

Init ==
    /\ InitGeneral \/ InitExample
    /\ out = NotCalled
    /\ prev_out = NotCalled
    /\ pred = NoPrediction
    /\ ScriptIdle

CallCreateSequences ==
    /\ out' = create_sequences(df, seq_length, feature_cols, "points")
    /\ prev_out' = out
    /\ df' = caller_frame_after(df)
    /\ UNCHANGED <<seq_length, feature_cols, pred>>
    /\ UNCHANGED script_vars

CallPredictNextGameweek ==
    /\ pred' = predict_next_gameweek(df, seq_length, feature_cols)
    /\ df' = caller_frame_after(df)
    /\ UNCHANGED <<seq_length, feature_cols, out, prev_out>>
    /\ UNCHANGED script_vars

Next == CallCreateSequences \/ CallPredictNextGameweek

Spec == Init /\ [][Next]_vars

---------------------------------------------------------------------------
\* data_processing.process_data

ProcessSeqLength == 5
PredictSeqLength == 5
KFoldSplits == 5
TestShare == 5

DefaultFeatureCols == <<"minutes", "goals", "assists">>

required_cols == {"player_id", "gameweek", "minutes", "goals", "assists", "points"}

\* pd.concat(player_gw_dfs, ignore_index=True): the tables one after another
\* in os.listdir order (the stored gw.csv files share their columns).
RECURSIVE concat(_)
concat(entries) ==
    IF entries = <<>> THEN <<>>
    ELSE concat(SubSeq(entries, 1, Len(entries) - 1)) \o entries[Len(entries)].frame.rows

\* gw.csv of every folder under data/players, or None when there is none.
aggregate_player_gw(d) ==
    IF d.players = <<>> THEN NoneFrame
    ELSE Frame(d.players[1].frame.columns, concat(d.players))

\* df.rename(columns={old: new}) when old is a column and new is not.
rename_if_needed(f, old, new) ==
    IF old \in f.columns /\ new \notin f.columns
    THEN LET cols == (f.columns \ {old}) \cup {new}
         IN Frame(cols, [i \in 1..Len(f.rows) |->
                           [c \in cols |-> IF c = new THEN f.rows[i][old]
                                                      ELSE f.rows[i][c]]])
    ELSE f

rename_columns(f) ==
    rename_if_needed(
        rename_if_needed(
            rename_if_needed(f, "total_points", "points"),
            "mins", "minutes"),
        "goals_scored", "goals")

column_sum(rows, c) == SumSeq([i \in 1..Len(rows) |-> rows[i][c]])

\* StandardScaler().fit_transform on the feature columns, in place.  A cell x
\* of a column with n cells of sum S becomes n*x - S, its distance from the
\* column mean in units of 1/n; the scaler's further division by the column's
\* standard deviation (by 1 for a constant column) is not carried.
fit_transform(f, fc) ==
    LET n == Len(f.rows)
    IN Frame(f.columns,
             [i \in 1..n |->
                [c \in f.columns |->
                    IF c \in Range(fc) THEN n * f.rows[i][c] - column_sum(f.rows, c)
                                       ELSE f.rows[i][c]]])

\* What process_data hands back: the key tables, player_gw_df, X and y;
\* raised names the exception when the call does not return.
process_data(d) ==
    LET key == [teams_df         |-> "teams.csv" \in d.files,
                fixtures_df      |-> "fixtures.csv" \in d.files,
                player_idlist_df |-> "player_idlist.csv" \in d.files,
                playerraw_df     |-> "playerraw.csv" \in d.files]
        gw == aggregate_player_gw(d)
        renamed == rename_columns(gw)
    IN IF gw.isNone
       THEN [raised |-> "", key |-> key, player_gw_df |-> gw, Xy |-> NoneResult]
       ELSE IF required_cols \subseteq renamed.columns
       THEN IF Len(renamed.rows) = 0
            THEN [raised |-> "ValueError", key |-> key, player_gw_df |-> renamed,
                  Xy |-> NotCalled]
            ELSE LET normalized == fit_transform(renamed, DefaultFeatureCols)
                 IN [raised |-> "", key |-> key, player_gw_df |-> normalized,
                     Xy |-> create_sequences(normalized, ProcessSeqLength,
                                             DefaultFeatureCols, "points")]
       ELSE [raised |-> "", key |-> key, player_gw_df |-> renamed, Xy |-> NoneResult]

---------------------------------------------------------------------------
\* main.main, from the return of ingest_data on.

\* train_model(X, y): train_test_split refuses an empty sample and
\* KFold(n_splits=5).split refuses fewer samples than splits.
train_model_raises(n) == n < KFoldSplits

\* X[-len(y)//5:] : the last ceil(n/5) entries.
test_slice(s) ==
    LET n == Len(s)
        t == (n + TestShare - 1) \div TestShare
    IN SubSeq(s, n - t + 1, n)

\* The table analyze_errors builds before it merges in the names.
analyze_errors(X_test, y_test, f) ==
    LET t == Len(y_test)
        n == Len(f.rows)
    IN [k \in 1..t |->
          [player_id        |-> f.rows[n - t + k]["player_id"],
           gameweek         |-> f.rows[n - t + k]["gameweek"],
           actual_points    |-> y_test[k],
           predicted_points |-> model_predict(X_test[k])]]

MainProcessData ==
    /\ pc = "ingested"
    /\ LET r == process_data(disk)
       IN /\ data' = IF r.raised = "" THEN r.key ELSE data
          /\ df' = IF r.raised = "" THEN r.player_gw_df ELSE df
          /\ out' = IF r.raised = "" THEN r.Xy ELSE out
          /\ exc' = r.raised
          /\ pc' = IF r.raised = "" THEN "processed" ELSE "raised"
    /\ invoked' = Append(invoked, "process_data")
    /\ UNCHANGED <<seq_length, feature_cols, prev_out, pred,
                   pos, disk, remote, fetched, log, error_df>>

\* if data["X"] is None or data["y"] is None or data["player_gw_df"] is None
MainExitNoData ==
    /\ pc = "processed"
    /\ out.kind = "None" \/ df.isNone
    /\ log' = Append(log, "No sequences created or no player gameweek data available. Exiting.")
    /\ pc' = "returned"
    /\ UNCHANGED <<builder_vars, pos, disk, remote, fetched, data, invoked, exc, error_df>>

MainTrainModel ==
    /\ pc = "processed"
    /\ ~(out.kind = "None" \/ df.isNone)
    /\ invoked' = Append(invoked, "train_model")
    /\ IF train_model_raises(Len(out.X))
       THEN pc' = "raised" /\ exc' = "ValueError"
       ELSE pc' = "trained" /\ exc' = exc
    /\ UNCHANGED <<builder_vars, pos, disk, remote, fetched, data, log, error_df>>

MainPredict ==
    /\ pc = "trained"
    /\ invoked' = Append(invoked, "predict_next_gameweek")
    /\ pred' = predict_next_gameweek(df, PredictSeqLength, DefaultFeatureCols)
    /\ df' = caller_frame_after(df)
    /\ IF pred'.kind = "dict"
       THEN pc' = "predicted" /\ exc' = exc
       ELSE pc' = "raised" /\ exc' = pred'.kind
    /\ UNCHANGED <<seq_length, feature_cols, out, prev_out,
                   pos, disk, remote, fetched, data, log, error_df>>

\* The loop that logs each prediction with the player's name.
MainLogPredictions ==
    /\ pc = "predicted"
    /\ IF DOMAIN pred.predictions # {} /\ ~data.player_idlist_df
       THEN pc' = "raised" /\ exc' = "AttributeError"
       ELSE pc' = "logged" /\ exc' = exc
    /\ UNCHANGED <<builder_vars, pos, disk, remote, fetched, data, invoked, log, error_df>>

MainPlot ==
    /\ pc = "logged"
    /\ invoked' = Append(invoked, "plot_top100_price_vs_points")
    /\ IF "value" \notin df.columns
       THEN pc' = "raised" /\ exc' = "KeyError"
       ELSE IF ~data.player_idlist_df
       THEN pc' = "raised" /\ exc' = "TypeError"
       ELSE pc' = "plotted" /\ exc' = exc
    /\ UNCHANGED <<builder_vars, pos, disk, remote, fetched, data, log, error_df>>

MainAnalyzeErrors ==
    /\ pc = "plotted"
    /\ invoked' = Append(invoked, "analyze_errors")
    /\ error_df' = analyze_errors(test_slice(out.X), test_slice(out.y), df)
    /\ pc' = "returned"
    /\ UNCHANGED <<builder_vars, pos, disk, remote, fetched, data, log, exc>>

\* The gw.csv files ingest_data leaves behind: per player, player_id set and
\* gameweek 1, 2, ... in file order.
StoredGw(cols, p, n) == Frame(cols, [g \in 1..n |-> RowOf(cols, p, g)])

MainPlayers == {1, 2}
FileRowChoices == {0, 5, 6, 10}
FolderLists ==
    {s \in UNION {[1..n -> MainPlayers] : n \in 0..Cardinality(MainPlayers)} :
        \A i, j \in DOMAIN s : i # j => s[i] # s[j]}
GwSchemas ==
    { {"player_id", "gameweek", "minutes", "goals_scored", "assists", "total_points", "value"},
      {"player_id", "gameweek", "minutes", "goals", "assists", "points", "value"},
      {"player_id", "gameweek", "mins", "goals_scored", "assists", "total_points"},
      {"player_id", "gameweek", "minutes", "goals_scored", "total_points", "value"} }
LocalFileNames ==
    {"teams.csv", "fixtures.csv", "player_idlist.csv", "players_raw.csv", "playerraw.csv"}

InitMain ==
    /\ pc = "ingested"
    /\ pos = 0
    /\ \E fs \in SUBSET LocalFileNames, folders \in FolderLists, cols \in GwSchemas :
          \E n \in [Range(folders) -> FileRowChoices] :
             disk = [files |-> fs,
                     idlist |-> IF "player_idlist.csv" \in fs THEN folders ELSE <<>>,
                     understat |-> {},
                     players |-> [i \in 1..Len(folders) |->
                                     [player |-> folders[i],
                                      frame |-> StoredGw(cols, folders[i], n[folders[i]])]]]
    /\ remote = NoRemote
    /\ fetched = <<>>
    /\ data = NoData
    /\ invoked = <<>>
    /\ log = <<>>
    /\ exc = ""
    /\ error_df = <<>>
    /\ df = NoneFrame
    /\ seq_length = ProcessSeqLength
    /\ feature_cols = DefaultFeatureCols
    /\ out = NotCalled
    /\ prev_out = NotCalled
    /\ pred = NoPrediction

NextMain ==
    \/ MainProcessData
    \/ MainExitNoData
    \/ MainTrainModel
    \/ MainPredict
    \/ MainLogPredictions
    \/ MainPlot
    \/ MainAnalyzeErrors

SpecMain == InitMain /\ [][NextMain]_vars

---------------------------------------------------------------------------
\* data_ingestion.ingest_data

key_files == <<"teams.csv", "fixtures.csv", "player_idlist.csv", "players_raw.csv">>

\* One attempted network fetch and how it ended.
Fetch(kind, id, name, ok) == [kind |-> kind, id |-> id, name |-> name, ok |-> ok]

\* load_csv_from_url: the table when the request and the parse succeed,
\* None (after printing the error) when either raises.
load_csv_from_url(ok, frame) == IF ok THEN frame ELSE NoneFrame

\* players/<folder>/gw.csv as the mirror holds it.
RemoteGw(r, p) ==
    IF p \in DOMAIN r.gw_rows
    THEN Frame(r.gw_cols, [g \in 1..r.gw_rows[p] |-> RowOf(r.gw_cols, p, g)])
    ELSE NoneFrame

\* df['player_id'] = row['id'], and a gameweek column numbered from 1 in
\* row order when the file has none.
with_player_and_gameweek(f, p) ==
    LET cols == f.columns \cup {"player_id", "gameweek"}
    IN Frame(cols,
             [i \in 1..Len(f.rows) |->
                [c \in cols |->
                    IF c = "player_id" THEN p
                    ELSE IF c = "gameweek" /\ "gameweek" \notin f.columns THEN i
                    ELSE f.rows[i][c]]])

\* save_df_to_local for a player's folder: the file is written anew.
save_player_gw(entries, p, f) ==
    IF \E i \in DOMAIN entries : entries[i].player = p
    THEN [i \in DOMAIN entries |->
            IF entries[i].player = p THEN [player |-> p, frame |-> f] ELSE entries[i]]
    ELSE Append(entries, [player |-> p, frame |-> f])

\* for file_name in key_files: load, and save when loaded.
IngestKeyFile ==
    /\ pc = "key_files"
    /\ pos <= Len(key_files)
    /\ \E ok \in BOOLEAN :
          /\ fetched' = Append(fetched, Fetch("key", 0, key_files[pos], ok))
          /\ disk' = IF ~ok THEN disk
                     ELSE [disk EXCEPT
                             !.files = @ \cup {key_files[pos]},
                             !.idlist = IF key_files[pos] = "player_idlist.csv"
                                        THEN remote.idlist ELSE @]
    /\ pos' = IF pos = Len(key_files) THEN 0 ELSE pos + 1
    /\ pc' = IF pos = Len(key_files) THEN "understat_api" ELSE pc
    /\ UNCHANGED <<builder_vars, remote, data, invoked, log, exc, error_df>>

\* requests.get(api_url): on an exception print and return.
IngestUnderstatListing ==
    /\ pc = "understat_api"
    /\ \E ok \in BOOLEAN :
          /\ fetched' = Append(fetched, Fetch("understat_api", 0, "understat", ok))
          /\ pc' = IF ok THEN "understat_files" ELSE "ingested"
          /\ pos' = IF ok THEN 1 ELSE 0
    /\ UNCHANGED <<builder_vars, disk, remote, data, invoked, log, exc, error_df>>

\* for file in files: entries that are not .csv files are passed over.
IngestUnderstatFile ==
    /\ pc = "understat_files"
    /\ pos <= Len(remote.understat)
    /\ LET file == remote.understat[pos]
       IN IF file.type = "file" /\ file.csv
          THEN \E ok \in BOOLEAN :
                 /\ fetched' = Append(fetched, Fetch("understat_file", 0, file.name, ok))
                 /\ disk' = IF ok THEN [disk EXCEPT !.understat = @ \cup {file.name}]
                                  ELSE disk
          ELSE UNCHANGED <<fetched, disk>>
    /\ pos' = pos + 1
    /\ UNCHANGED <<builder_vars, pc, remote, data, invoked, log, exc, error_df>>

\* After the Understat loop: read the local player_idlist.csv, or print
\* that it is not there and return.
IngestLoadIdlist ==
    /\ pc = "understat_files"
    /\ pos > Len(remote.understat)
    /\ pc' = IF "player_idlist.csv" \in disk.files THEN "player_gw" ELSE "ingested"
    /\ pos' = IF "player_idlist.csv" \in disk.files THEN 1 ELSE 0
    /\ UNCHANGED <<builder_vars, disk, remote, fetched, data, invoked, log, exc, error_df>>

\* for idx, row in player_idlist_df.iterrows(): load gw.csv, save when loaded.
IngestPlayerGw ==
    /\ pc = "player_gw"
    /\ pos <= Len(disk.idlist)
    /\ LET p == disk.idlist[pos]
       IN \E ok \in {b \in BOOLEAN : b => ~RemoteGw(remote, p).isNone} :
            LET f == load_csv_from_url(ok, RemoteGw(remote, p))
            IN /\ fetched' = Append(fetched, Fetch("gw", p, "gw.csv", ok))
               /\ disk' = IF f.isNone THEN disk
                          ELSE [disk EXCEPT !.players =
                                  save_player_gw(@, p, with_player_and_gameweek(f, p))]
    /\ pos' = pos + 1
    /\ UNCHANGED <<builder_vars, pc, remote, data, invoked, log, exc, error_df>>

\* The loop over the players is over: print and return.
IngestComplete ==
    /\ pc = "player_gw"
    /\ pos > Len(disk.idlist)
    /\ pc' = "ingested"
    /\ pos' = 0
    /\ UNCHANGED <<builder_vars, disk, remote, fetched, data, invoked, log, exc, error_df>>

RemoteIdLists == {<<1>>, <<2, 1>>}
UnderstatEntry(name, type, csv) == [name |-> name, type |-> type, csv |-> csv]
UnderstatListings ==
    { <<>>,
      <<UnderstatEntry("understat_team.csv", "file", TRUE)>>,
      <<UnderstatEntry("understat_player.csv", "file", TRUE),
        UnderstatEntry("notes.txt", "file", FALSE),
        UnderstatEntry("understat_team.csv", "file", TRUE)>> }
RemoteRowChoices == {0, 2}
RemoteSchemas ==
    { {"minutes", "goals_scored", "assists", "total_points", "value"},
      {"gameweek", "minutes", "goals_scored", "assists", "total_points", "value"} }
\* What an earlier run may have left in the data directory.
StartDisks ==
    { EmptyDisk,
      [EmptyDisk EXCEPT !.files = {"player_idlist.csv"}, !.idlist = <<2>>] }

InitIngest ==
    /\ pc = "key_files"
    /\ pos = 1
    /\ disk \in StartDisks
    /\ \E ids \in RemoteIdLists, listing \in UnderstatListings, cols \in RemoteSchemas :
          \E n \in [Range(ids) -> RemoteRowChoices] :
             remote = [idlist |-> ids, understat |-> listing, gw_rows |-> n, gw_cols |-> cols]
    /\ fetched = <<>>
    /\ data = NoData
    /\ invoked = <<>>
    /\ log = <<>>
    /\ exc = ""
    /\ error_df = <<>>
    /\ df = NoneFrame
    /\ seq_length = ProcessSeqLength
    /\ feature_cols = DefaultFeatureCols
    /\ out = NotCalled
    /\ prev_out = NotCalled
    /\ pred = NoPrediction

NextIngest ==
    \/ IngestKeyFile
    \/ IngestUnderstatListing
    \/ IngestUnderstatFile
    \/ IngestLoadIdlist
    \/ IngestPlayerGw
    \/ IngestComplete

SpecIngest == InitIngest /\ [][NextIngest]_vars

\* main up to the return of process_data: ingest_data, then process_data on
\* the data directory it left.
NextPipeline ==
    \/ NextIngest
    \/ MainProcessData

SpecPipeline == InitIngest /\ [][NextPipeline]_vars

---------------------------------------------------------------------------
\* What the claims speak of, read off the row store itself (not off the
\* sorted copy the code makes).

HasKeys == ~df.isNone /\ {"player_id", "gameweek"} \subseteq df.columns

PlayersIn == {df.rows[i]["player_id"] : i \in DOMAIN df.rows}

RowsOf(p) == {i \in DOMAIN df.rows : df.rows[i]["player_id"] = p}

RowCount(p) == Cardinality(RowsOf(p))

\* The row of player p that has exactly j of p's rows at earlier gameweeks
\* (j = 0 is p's first gameweek).
NthRow(p, j) ==
    df.rows[CHOOSE i \in RowsOf(p) :
              Cardinality({k \in RowsOf(p) :
                  df.rows[k]["gameweek"] < df.rows[i]["gameweek"]}) = j]

FeatureTuple(r) == [j \in 1..Len(feature_cols) |-> r[feature_cols[j]]]

\* Feature tuples of p's rows at sorted positions i .. i+L-1.
ExpectedWindow(p, i, L) == [q \in 1..L |-> FeatureTuple(NthRow(p, i + q - 1))]

RECURSIVE SumOver(_, _)
SumOver(S, L) ==
    IF S = {} THEN 0
    ELSE LET p == CHOOSE x \in S : TRUE
         IN Max(0, RowCount(p) - L) + SumOver(S \ {p}, L)

WindowsOf(p) == {k \in DOMAIN out.who : out.who[k] = p}

\* Start index of window k within its player's windows.
StartOf(k) == Cardinality({q \in 1..(k - 1) : out.who[q] = out.who[k]})

RequiredCols == {"player_id", "gameweek", "points"} \cup Range(feature_cols)

InputUnsorted ==
    \E i, j \in DOMAIN df.rows :
        /\ i < j
        /\ df.rows[i]["player_id"] = df.rows[j]["player_id"]
        /\ df.rows[i]["gameweek"] > df.rows[j]["gameweek"]

IsExample == HasKeys /\ PlayersIn = ExamplePlayers /\ Len(df.rows) = Len(ExampleMinutes)

---------------------------------------------------------------------------
\* C1: on a row store that has every required column, create_sequences
\* returns arrays in which each player with n rows owns exactly
\* max(0, n - L) windows, and the number of windows is the sum of these
\* counts over the players.
C1_WindowCount ==
    /\ (out.kind # "not_called" /\ ~df.isNone /\ RequiredCols \subseteq df.columns)
          => out.kind = "arrays"
    /\ out.kind = "arrays" =>
          /\ \A p \in PlayersIn :
                Cardinality(WindowsOf(p)) = Max(0, RowCount(p) - seq_length)
          /\ Range(out.who) \subseteq PlayersIn
          /\ Len(out.X) = SumOver(PlayersIn, seq_length)
          /\ Len(out.y) = Len(out.X)
          /\ Len(out.who) = Len(out.X)

\* A player with L + 1 rows gave its one window while another player with
\* at most L rows gave none.
C1_Witness ==
    /\ out.kind = "arrays"
    /\ \E p, q \in PlayersIn :
          /\ RowCount(p) = seq_length + 1
          /\ RowCount(q) <= seq_length
          /\ Cardinality(WindowsOf(p)) = 1
          /\ WindowsOf(q) = {}

\* C2: window k, cut for player p at start index i, is the L feature tuples
\* (arity len(feature_cols), in feature_cols order) of p's rows at positions
\* i .. i+L-1 in ascending gameweek order, and y[k] is the target of p's row
\* at position i+L, whatever the order of the rows in the store.
C2_WindowContents ==
    out.kind = "arrays" =>
        \A k \in DOMAIN out.X :
            /\ Len(out.X[k]) = seq_length
            /\ \A q \in 1..seq_length : Len(out.X[k][q]) = Len(feature_cols)
            /\ StartOf(k) + seq_length < RowCount(out.who[k])
            /\ out.X[k] = ExpectedWindow(out.who[k], StartOf(k), seq_length)
            /\ out.y[k] = NthRow(out.who[k], StartOf(k) + seq_length)["points"]

\* Windows were cut from a store whose rows were not in gameweek order.
C2_Witness ==
    /\ out.kind = "arrays"
    /\ Len(out.X) >= 2
    /\ Len(feature_cols) > 1
    /\ InputUnsorted

\* C3: a call on a row store with every required column that produces zero
\* windows (no rows, or no player with more than L rows) reports None, never
\* empty arrays.
C3_NoSequencesIsNone ==
    (/\ out.kind \in {"arrays", "None"}
     /\ ~df.isNone
     /\ RequiredCols \subseteq df.columns
     /\ \A p \in PlayersIn : RowCount(p) <= seq_length)
        => out.kind = "None"

\* C4: with a required column absent from the row store the call fails
\* (None or a raised KeyError), whatever the players' row counts.
C4_MissingColumnFails ==
    (out.kind # "not_called" /\ ~df.isNone /\ ~(RequiredCols \subseteq df.columns))
        => out.kind \in {"None", "KeyError"}

\* The general part of C5: predict_next_gameweek hands the predictor a
\* window for player p iff p has at least seq_length rows, and that window
\* is the feature tuples of p's last seq_length rows in gameweek order.
C5_General ==
    pred.kind = "dict" =>
        \A p \in PlayersIn :
            /\ (\A c \in Range(pred.calls) : c.player # p) <=> RowCount(p) < seq_length
            /\ \A c \in Range(pred.calls) :
                  c.player = p =>
                    c.seq = ExpectedWindow(p, RowCount(p) - seq_length, seq_length)

ExampleCase == IsExample /\ seq_length = 3 /\ pred.kind = "dict"

\* C5 as amended: the general part, and on the worked example with L = 3
\* the window is minutes [90, 90, 60] (gameweeks 4, 5, 6).
C5_LatestWindow ==
    /\ C5_General
    /\ ExampleCase =>
          /\ Len(pred.calls) = 1
          /\ pred.calls[1].seq = <<(<<90>>), (<<90>>), (<<60>>)>>

\* The worked example was extracted from an unsorted store.
C5_Witness ==
    /\ ExampleCase
    /\ InputUnsorted
    /\ Len(pred.calls) = 1

\* C5 as stated: the general part, and the example gives [0, 90, 90].
C5_Original ==
    /\ C5_General
    /\ ExampleCase =>
          /\ Len(pred.calls) = 1
          /\ pred.calls[1].seq = <<(<<0>>), (<<90>>), (<<90>>)>>

\* C6: the returned mapping has an entry exactly for the players that have
\* a latest window (at least seq_length rows), and the predictor was
\* invoked exactly once for each entry and for nothing else.
C6_OnePredictionPerPlayer ==
    pred.kind = "dict" =>
        /\ DOMAIN pred.predictions = {p \in PlayersIn : RowCount(p) >= seq_length}
        /\ \A p \in DOMAIN pred.predictions :
              Cardinality({k \in DOMAIN pred.calls : pred.calls[k].player = p}) = 1
        /\ \A k \in DOMAIN pred.calls : pred.calls[k].player \in DOMAIN pred.predictions
        /\ \A k \in DOMAIN pred.calls :
              pred.predictions[pred.calls[k].player] = model_predict(pred.calls[k].seq)

\* A player with more rows than a window holds was predicted while a
\* player with too few rows was left out.
C6_Witness ==
    /\ pred.kind = "dict"
    /\ Cardinality(DOMAIN pred.predictions) >= 1
    /\ \E p \in DOMAIN pred.predictions : RowCount(p) > seq_length
    /\ \E p \in PlayersIn : p \notin DOMAIN pred.predictions

\* C7 as stated: the players with a prediction are the players that
\* contributed a window, so a player with at most L rows has neither.
C7_Original ==
    (out.kind = "arrays" /\ pred.kind = "dict" /\ RequiredCols \subseteq df.columns) =>
        /\ DOMAIN pred.predictions = Range(out.who)
        /\ \A p \in PlayersIn :
              RowCount(p) <= seq_length =>
                 p \notin Range(out.who) /\ p \notin DOMAIN pred.predictions

\* C7 as amended: fewer than L rows, neither windows nor a prediction;
\* exactly L rows, no windows but a prediction; more than L rows, both.
C7_Amended ==
    (out.kind = "arrays" /\ pred.kind = "dict") =>
        \A p \in PlayersIn :
            /\ p \in Range(out.who) <=> RowCount(p) > seq_length
            /\ p \in DOMAIN pred.predictions <=> RowCount(p) >= seq_length

\* A player with exactly L rows has a prediction and no window.
C7_Witness ==
    /\ out.kind = "arrays"
    /\ pred.kind = "dict"
    /\ \E p \in PlayersIn :
          /\ RowCount(p) = seq_length
          /\ p \in DOMAIN pred.predictions
          /\ p \notin Range(out.who)
    /\ \E p \in PlayersIn : RowCount(p) < seq_length

C8_NoTrainingOnZeroExamples ==
    /\ (pc \in {"processed", "trained", "predicted", "logged", "plotted", "returned"}
          \/ "train_model" \in Range(invoked))
        /\ (df.isNone \/ out.kind # "arrays" \/ Len(out.X) = 0)
        => Range(invoked) \subseteq {"process_data"}
    /\ (pc = "returned" /\ (df.isNone \/ out.kind # "arrays" \/ Len(out.X) = 0))
        => log # <<>>

Attempted(kind, id, name) ==
    \E i \in DOMAIN fetched :
        fetched[i].kind = kind /\ fetched[i].id = id /\ fetched[i].name = name

\* C10: by the time ingest_data returns every fetch has been attempted
\* whatever failed before it: each key file, the Understat listing, each
\* listed Understat csv file when the listing arrived, and the gw.csv of
\* every player of the local player_idlist.csv, a failed listing or not.
C10_EveryFetchAttempted ==
    pc = "ingested" =>
        /\ \A i \in DOMAIN key_files : Attempted("key", 0, key_files[i])
        /\ Attempted("understat_api", 0, "understat")
        /\ (\E i \in DOMAIN fetched : fetched[i].kind = "understat_api" /\ fetched[i].ok)
              => \A i \in DOMAIN remote.understat :
                    (remote.understat[i].type = "file" /\ remote.understat[i].csv)
                      => Attempted("understat_file", 0, remote.understat[i].name)
        /\ "player_idlist.csv" \in disk.files
              => \A i \in DOMAIN disk.idlist : Attempted("gw", disk.idlist[i], "gw.csv")

\* C11: row k of the error table carries the player_id and gameweek of the
\* row of player_gw_df whose points are the k-th test example's
\* actual_points.
C11_ErrorRowsNameTheirRow ==
    "analyze_errors" \in Range(invoked) =>
        \A k \in DOMAIN error_df :
            \E i \in DOMAIN df.rows :
                /\ df.rows[i]["points"] = error_df[k].actual_points
                /\ df.rows[i]["player_id"] = error_df[k].player_id
                /\ df.rows[i]["gameweek"] = error_df[k].gameweek

\* The table process_data returns for each key file ingest_data saves.
TableOf(name) ==
    CASE name = "teams.csv"         -> data.teams_df
      [] name = "fixtures.csv"      -> data.fixtures_df
      [] name = "player_idlist.csv" -> data.player_idlist_df
      [] name = "players_raw.csv"   -> data.playerraw_df

\* C12: once process_data has returned, the table of every key file that
\* ingest_data downloaded and saved in this run is loaded (not None).
C12_SavedKeyFilesAreLoaded ==
    pc = "processed" =>
        \A i \in DOMAIN fetched :
            (fetched[i].kind = "key" /\ fetched[i].ok) => TableOf(fetched[i].name)

====
